---- MODULE Spec2Model ----
(***************************************************************************)
(* Tamper-evident, hash-chained logging of Aeroplane-Technical-Log.        *)
(*                                                                         *)
(*   logger_config.py   last_hashes, ChainedJsonFormatter.add_fields,      *)
(*                      setup_logging (handlers, levels, propagation)      *)
(*   verify_audit.py    verify_log_file                                    *)
(*                                                                         *)
(* Strings are sequences of tokens.  HMAC-SHA256 is modelled as an         *)
(* injective keyed function of its payload (no collisions): the digest of  *)
(* a payload is the payload between two reserved bracket tokens.  The      *)
(* payload itself is the pipe-delimited concatenation the code builds.     *)
(*                                                                         *)
(* A logging call is split where the interpreter may switch threads:       *)
(*   Log        Logger.log: level check, choice of the handlers            *)
(*   ReadPrev   Handler.handle takes the handler's lock; add_fields up to  *)
(*              the read of last_hashes (lines 49-55)                      *)
(*   add_fields the signature and the store to last_hashes (lines 57-68)   *)
(*   Emit       the handler appends the line to its file and releases its  *)
(*              lock; the next handler of the logger follows               *)
(* The initial state is the module after line 29, before the first call of *)
(* setup_logging (line 114); the second call is app.py:27.  The calls at   *)
(* lines 120-122 are ordinary logging calls.                               *)
(*                                                                         *)
(* A sink is audited at rest: someone with write access to the file may    *)
(* change it once (Tamper...), then verify_log_file reads it (VerifyFile). *)
(*                                                                         *)
(* Specifications:                                                         *)
(*   Spec         one thread; emissions, tampering, verify_log_file        *)
(*   SpecThreads  NumThreads threads; emissions only                       *)
(*   SpecRestart  one thread; the logging process is restarted once        *)
(*   SpecEnv      both modules from their first line, LOG_SECRET_KEY set   *)
(*                or not                                                   *)
(*   SpecCli      one thread; tampering; verify_audit.py run as a program  *)
(*   SpecReplay   one thread; two runs of verify_log_file with logging     *)
(*                between them                                             *)
(*   SpecPlace    one thread; a verified sink is presented under another   *)
(*                sink's name and verified again                           *)
(***************************************************************************)
EXTENDS Integers, Sequences, FiniteSets, TLC

(* ---------------------------- bounds ----------------------------------- *)
NumThreads == 2
MaxEmit == 2

(* setup_logging is called at logger_config.py:114 and again at app.py:27  *)
MaxSetups == 2

(* starts of the logging process, and logging calls of a run that is       *)
(* restarted afterwards                                                    *)
MaxStarts == 2
MaxEmitBeforeRestart == 1

Threads == 1..NumThreads

Channels == {"security", "application", "error", "access"}

(* "werkzeug" and "Security" stand for the logger names outside          *)
(* last_hashes; the second differs from a channel name in case only.       *)
LoggerNames == Channels \cup {"werkzeug", "Security"}

Files == {"access.log", "application.log", "security.log", "error.log"}

Levels == {"DEBUG", "INFO", "WARNING", "ERROR", "CRITICAL"}

LevelNo == [DEBUG |-> 10, INFO |-> 20, WARNING |-> 30, ERROR |-> 40, CRITICAL |-> 50]

(* Message text and clock value are data only: they enter the payload and  *)
(* the record and never a condition of the code.  A message is free text   *)
(* and may hold the character that separates the fields of the payload.    *)
Messages == {<<"a", "|", "b">>}

Timestamps == {<<"t1">>}

(* "ip" stands for the fields a caller passes with extra=...               *)
Keys == {"timestamp", "level", "name", "message", "prev_signature", "signature",
         "ip"}

LOG_SECRET_KEY == "k"

Genesis == <<"0">>

NoneVal == <<"\\None">>

Missing == <<"\\missing">>

VARIABLES last_hashes, setups, lock, sinks, pc, ev, todo, loc, produced,
          emitted, tamper, report, environ, proc, boot, cli, seen

vars == <<last_hashes, setups, lock, sinks, pc, ev, todo, loc, produced,
          emitted, tamper, report, environ, proc, boot, cli, seen>>

(* environ: is LOG_SECRET_KEY in the environment; proc: how far the two    *)
(* programs got in loading their module; boot: the length of every sink    *)
(* when the logging process last started; cli: what one run of             *)
(* verify_audit.py as a program verified, in order; seen: what an earlier  *)
(* run of verify_log_file read and returned, and after how many logging    *)
(* calls.                                                                  *)
Host == <<environ, proc, boot, cli, seen>>

(* ------------------------- signing primitive --------------------------- *)
hmac_new(key, payload) == <<"[", key>> \o payload \o <<"]">>

fstr(v) == IF v = NoneVal THEN <<"None">> ELSE v

Payload(prev, ts, lvl, msg) ==
    fstr(prev) \o <<"|">> \o fstr(ts) \o <<"|">> \o fstr(lvl) \o <<"|">> \o fstr(msg)

(* --------------------------- sink lines -------------------------------- *)
NoFields == [k \in Keys |-> Missing]

JsonObject(fields) == [kind |-> "obj", f |-> fields]

Garbage == [kind |-> "garbage", f |-> NoFields]

Scalar == [kind |-> "scalar", f |-> NoFields]

Get(line, key) == IF line.f[key] = Missing THEN NoneVal ELSE line.f[key]

GetOr(line, key, dflt) == IF line.f[key] = Missing THEN dflt ELSE line.f[key]

Has(line, key) == line.f[key] # Missing

(* ----------------------------- verifier -------------------------------- *)
VerifyStart_mem ==
    [expected |-> last_hashes["application"], line_number |-> 0, tampered |-> FALSE,
     diags |-> <<>>, crashed |-> FALSE]

VerifyStart ==
    [expected |-> Genesis, line_number |-> 0, tampered |-> FALSE,
     diags |-> <<>>, crashed |-> FALSE]

Diag_same(n, what) == [line |-> n, what |-> "anomaly"]

Diag(n, what) == [line |-> n, what |-> what]

ComputedHash(line) ==
    hmac_new(LOG_SECRET_KEY,
             Payload(line.f["prev_signature"], line.f["timestamp"],
                     line.f["level"], GetOr(line, "message", <<>>)))

ChainBroken_off(line, expected) == FALSE

ChainBroken_firstOnly(line, expected) ==
    expected = Genesis /\ Get(line, "prev_signature") # expected

ChainBroken(line, expected) == Get(line, "prev_signature") # expected

SignatureBad_off(line) == FALSE

SignatureBad(line) == Get(line, "signature") # ComputedHash(line)

NextExpected_computed(line) == ComputedHash(line)

NextExpected(line) == Get(line, "signature")

KeyError_named(line) ==
    \/ ~Has(line, "prev_signature") \/ ~Has(line, "timestamp") \/ ~Has(line, "level")
    \/ ~Has(line, "name")

KeyError(line) ==
    ~Has(line, "prev_signature") \/ ~Has(line, "timestamp") \/ ~Has(line, "level")

(* json.loads fails (also on a blank line): reported, then `continue`      *)
JSONDecodeError_abort(st, n) ==
    [st EXCEPT !.line_number = n, !.tampered = TRUE, !.crashed = TRUE,
               !.diags = Append(st.diags, Diag(n, "json"))]

JSONDecodeError_advance(st, n) ==
    [st EXCEPT !.line_number = n, !.tampered = TRUE, !.expected = NoneVal,
               !.diags = Append(st.diags, Diag(n, "json"))]

JSONDecodeError(st, n) ==
    [st EXCEPT !.line_number = n, !.tampered = TRUE,
               !.diags = Append(st.diags, Diag(n, "json"))]

VerifyLine(st, line) ==
    LET n == st.line_number + 1
        chainBreak == ChainBroken(line, st.expected)
        d1 == IF chainBreak THEN Append(st.diags, Diag(n, "chain")) ELSE st.diags
        sigBad == SignatureBad(line)
        d2 == IF sigBad THEN Append(d1, Diag(n, "signature")) ELSE d1
    IN  IF st.crashed THEN st
        ELSE IF line.kind = "garbage" THEN JSONDecodeError(st, n)
        ELSE IF line.kind = "scalar" THEN
            [st EXCEPT !.line_number = n, !.crashed = TRUE]
        ELSE IF KeyError(line) THEN
            [st EXCEPT !.line_number = n, !.crashed = TRUE, !.diags = d1,
                       !.tampered = st.tampered \/ chainBreak]
        ELSE
            [st EXCEPT !.line_number = n, !.diags = d2,
                       !.tampered = st.tampered \/ chainBreak \/ sigBad,
                       !.expected = NextExpected(line)]

RECURSIVE VerifyLoop(_, _)
VerifyLoop(st, lines) ==
    IF lines = <<>> THEN st
    ELSE VerifyLoop(VerifyLine(st, Head(lines)), Tail(lines))

verify_log_file_counted(exists, lines) ==
    IF ~exists THEN
        [result |-> "FALSE", verdict |-> "NONE", diags |-> <<>>, visited |-> 0]
    ELSE
        LET st == VerifyLoop(VerifyStart, lines)
            short == Len(lines) < 1
        IN  [result  |-> IF st.crashed THEN "CRASH"
                         ELSE IF st.tampered \/ short THEN "FALSE" ELSE "TRUE",
             verdict |-> IF st.crashed THEN "NONE"
                         ELSE IF st.tampered \/ short THEN "ALARM" ELSE "SUCCESS",
             diags   |-> st.diags,
             visited |-> st.line_number]

verify_log_file(exists, lines) ==
    IF ~exists THEN
        [result |-> "FALSE", verdict |-> "NONE", diags |-> <<>>, visited |-> 0]
    ELSE
        LET st == VerifyLoop(VerifyStart, lines)
        IN  [result  |-> IF st.crashed THEN "CRASH"
                         ELSE IF st.tampered THEN "FALSE" ELSE "TRUE",
             verdict |-> IF st.crashed THEN "NONE"
                         ELSE IF st.tampered THEN "ALARM" ELSE "SUCCESS",
             diags   |-> st.diags,
             visited |-> st.line_number]

(* ------------------------ logger configuration ------------------------- *)
HandlerIds == [file : Files, idx : 1..MaxSetups]

NonPropagating == {"access", "application", "security"}

OwnFile == [access |-> "access.log", application |-> "application.log",
            security |-> "security.log"]

HandlerLevel_info(file) == LevelNo["INFO"]

HandlerLevel(file) == IF file = "error.log" THEN LevelNo["ERROR"] ELSE LevelNo["INFO"]

RootLevel == LevelNo["INFO"]

isEnabledFor(level) == LevelNo[level] >= RootLevel

LoggerFile_root(name) == "error.log"

LoggerFile(name) == IF name \in NonPropagating THEN OwnFile[name] ELSE "error.log"

callHandlers(name, level, n) ==
    LET file == LoggerFile(name)
    IN  IF LevelNo[level] >= HandlerLevel(file)
        THEN [i \in 1..n |-> [file |-> file, idx |-> i]]
        ELSE <<>>

ChannelOf_appl(name) == "application"

ChannelOf_nocase(name) ==
    IF name = "Security" THEN "security"
    ELSE IF name \in DOMAIN last_hashes THEN name ELSE "application"

ChannelOf(name) == IF name \in DOMAIN last_hashes THEN name ELSE "application"

(* --------------------------- initial state ----------------------------- *)
NoEvent == [name |-> "", level |-> "", msg |-> <<>>]

NoLoc == [ts |-> <<>>, prev |-> <<>>, sig |-> <<>>]

NoTamper == [kind |-> "none", file |-> "", k |-> 0, before |-> <<>>]

NoReport == [file |-> "", result |-> "", verdict |-> "", diags |-> <<>>, visited |-> 0]

NoCli == [arg |-> "", runs |-> <<>>, ended |-> ""]

NoSeen == [file |-> "", exists |-> FALSE, lines |-> <<>>, outcome |-> <<>>, at |-> 0]

InitCommon ==
    /\ last_hashes = [c \in Channels |-> Genesis]
    /\ setups = 0
    /\ lock = [h \in HandlerIds |-> 0]
    /\ sinks = [f \in Files |-> <<>>]
    /\ ev = [t \in Threads |-> NoEvent]
    /\ todo = [t \in Threads |-> <<>>]
    /\ loc = [t \in Threads |-> NoLoc]
    /\ produced = [c \in Channels |-> <<>>]
    /\ emitted = 0
    /\ tamper = NoTamper
    /\ report = NoReport
    /\ boot = [starts |-> 1, len |-> [f \in Files |-> 0]]
    /\ cli = NoCli
    /\ seen = NoSeen

Loaded ==
    /\ environ = "set"
    /\ proc = [logger |-> "up", verifier |-> "up"]

(* LOG_SECRET_KEY is in the process environment ("set", "empty" for the   *)
(* empty string), only in the .env file ("dotenv"), or nowhere ("absent"). *)
Environments == {"set", "empty", "dotenv", "absent"}

InitEnv ==
    /\ InitCommon
    /\ environ \in Environments
    /\ proc = [logger |-> "start", verifier |-> "start"]
    /\ pc = [t \in Threads |-> IF t = 1 THEN "idle" ELSE "off"]

Init == InitCommon /\ Loaded /\ pc = [t \in Threads |-> IF t = 1 THEN "idle" ELSE "off"]

InitThreads == InitCommon /\ Loaded /\ pc = [t \in Threads |-> "idle"]

AllIdle == \A t \in Threads : pc[t] \in {"idle", "off"}

Running == tamper.kind = "none" /\ report = NoReport /\ cli = NoCli

(* ------------------------------ actions -------------------------------- *)
(* logging.FileHandler opens its file for appending: what the file held   *)
(* stays (an absent file is created empty).                                *)
FileHandler_truncate(content) == <<>>

FileHandler(content) == content

setup_logging ==
    /\ proc.logger = "up"
    /\ setups < MaxSetups
    /\ AllIdle
    /\ Running
    /\ setups' = setups + 1
    /\ sinks' = [f \in Files |-> FileHandler(sinks[f])]
    /\ UNCHANGED <<last_hashes, lock, pc, ev, todo, loc, produced,
                   emitted, tamper, report>>
    /\ UNCHANGED Host

Log(t, name, level, msg) ==
    /\ pc[t] = "idle"
    /\ setups >= 1
    /\ Running
    /\ emitted < MaxEmit
    /\ emitted' = emitted + 1
    /\ LET hs == IF isEnabledFor(level) THEN callHandlers(name, level, setups)
                 ELSE <<>>
       IN  IF hs = <<>>
           THEN UNCHANGED <<pc, ev, todo>>
           ELSE /\ pc' = [pc EXCEPT ![t] = "format"]
                /\ ev' = [ev EXCEPT ![t] = [name |-> name, level |-> level, msg |-> msg]]
                /\ todo' = [todo EXCEPT ![t] = hs]
    /\ UNCHANGED <<last_hashes, setups, lock, sinks, loc, produced, tamper, report>>
    /\ UNCHANGED Host

ReadPrev(t, ts) ==
    /\ pc[t] = "format"
    /\ Running
    /\ lock[Head(todo[t])] = 0
    /\ lock' = [lock EXCEPT ![Head(todo[t])] = t]
    /\ loc' = [loc EXCEPT ![t] = [ts |-> ts,
                                  prev |-> last_hashes[ChannelOf(ev[t].name)],
                                  sig |-> <<>>]]
    /\ pc' = [pc EXCEPT ![t] = "sign"]
    /\ UNCHANGED <<last_hashes, setups, sinks, ev, todo, produced, emitted,
                   tamper, report>>
    /\ UNCHANGED Host

StoreHash_lost(hashes, c, new_hash) == hashes

StoreHash_all(hashes, c, new_hash) == [x \in DOMAIN hashes |-> new_hash]

StoreHash(hashes, c, new_hash) == [hashes EXCEPT ![c] = new_hash]

LogRecord(e, l) ==
    JsonObject([timestamp |-> l.ts, level |-> <<e.level>>, name |-> <<e.name>>,
                message |-> e.msg, prev_signature |-> l.prev, signature |-> l.sig,
                ip |-> Missing])

add_fields(t) ==
    /\ pc[t] = "sign"
    /\ Running
    /\ LET new_hash == hmac_new(LOG_SECRET_KEY,
                                Payload(loc[t].prev, loc[t].ts, <<ev[t].level>>, ev[t].msg))
           c == ChannelOf(ev[t].name)
           l == [loc[t] EXCEPT !.sig = new_hash]
       IN  /\ loc' = [loc EXCEPT ![t] = l]
           /\ last_hashes' = StoreHash(last_hashes, c, new_hash)
           /\ produced' = [produced EXCEPT ![c] = Append(@, LogRecord(ev[t], l))]
    /\ pc' = [pc EXCEPT ![t] = "emit"]
    /\ UNCHANGED <<setups, lock, sinks, ev, todo, emitted, tamper, report>>
    /\ UNCHANGED Host

Emit(t) ==
    /\ pc[t] = "emit"
    /\ Running
    /\ LET h == Head(todo[t])
           rest == Tail(todo[t])
       IN  /\ sinks' = [sinks EXCEPT ![h.file] = Append(@, LogRecord(ev[t], loc[t]))]
           /\ lock' = [lock EXCEPT ![h] = 0]
           /\ todo' = [todo EXCEPT ![t] = rest]
           /\ loc' = [loc EXCEPT ![t] = NoLoc]
           /\ IF rest = <<>>
              THEN /\ pc' = [pc EXCEPT ![t] = "idle"]
                   /\ ev' = [ev EXCEPT ![t] = NoEvent]
              ELSE /\ pc' = [pc EXCEPT ![t] = "format"]
                   /\ UNCHANGED ev
    /\ UNCHANGED <<last_hashes, setups, produced, emitted, tamper, report>>
    /\ UNCHANGED Host

(* os.getenv('LOG_SECRET_KEY'): a string (TRUE) or None (FALSE); load_dotenv  *)
(* has put the entries of the .env file into the environment or has not    *)
(* been called yet.                                                        *)
getenv_default(env, dotenv_loaded) == TRUE

getenv(env, dotenv_loaded) ==
    env \in {"set", "empty"} \/ (dotenv_loaded /\ env = "dotenv")

(* logger_config.py:22 and verify_audit.py:8-9: .encode() of None raises   *)
(* AttributeError and the module is not loaded.                            *)
ImportLogger ==
    /\ proc.logger = "start"
    /\ proc' = [proc EXCEPT !.logger = IF getenv(environ, FALSE) THEN "up" ELSE "failed"]
    /\ UNCHANGED <<last_hashes, setups, lock, sinks, pc, ev, todo, loc, produced,
                   emitted, tamper, report, environ, boot, cli, seen>>

ImportVerifier ==
    /\ proc.verifier = "start"
    /\ proc' = [proc EXCEPT !.verifier = IF getenv(environ, TRUE) THEN "up" ELSE "failed"]
    /\ UNCHANGED <<last_hashes, setups, lock, sinks, pc, ev, todo, loc, produced,
                   emitted, tamper, report, environ, boot, cli, seen>>

(* The logging process ends and is started again: the module is loaded    *)
(* anew (last_hashes at genesis, no handlers), the files stay.             *)
Restart ==
    /\ proc.logger = "up"
    /\ AllIdle
    /\ Running
    /\ boot.starts < MaxStarts
    /\ emitted <= MaxEmitBeforeRestart
    /\ last_hashes' = [c \in Channels |-> Genesis]
    /\ setups' = 0
    /\ emitted' = 0
    /\ produced' = [c \in Channels |-> <<>>]
    /\ boot' = [starts |-> boot.starts + 1, len |-> [f \in Files |-> Len(sinks[f])]]
    /\ UNCHANGED <<lock, sinks, pc, ev, todo, loc, tamper, report, environ, proc,
                   cli, seen>>

(* ------------- tampering with a sink (file-write access) --------------- *)
AtRest == Running /\ AllIdle

Tampered(kind, f, k) == [kind |-> kind, file |-> f, k |-> k, before |-> sinks[f]]

EditMessages == {<<"a">>, <<"b">>, <<>>}

JunkLines == {Garbage, Scalar}

DropKeys == {"timestamp", "level", "prev_signature"}

RemoveAt(s, k) == [i \in 1..(Len(s) - 1) |-> IF i < k THEN s[i] ELSE s[i + 1]]

TamperFrame == UNCHANGED <<last_hashes, setups, lock, pc, ev, todo, loc,
                           produced, emitted, report, environ, proc, boot, cli,
                           seen>>

TamperEdit(f, k, m) ==
    /\ AtRest
    /\ k \in 1..Len(sinks[f])
    /\ sinks[f][k].f["message"] # m
    /\ sinks' = [sinks EXCEPT ![f][k].f["message"] = m]
    /\ tamper' = Tampered("edit", f, k)
    /\ TamperFrame

TamperDelete(f, k) ==
    /\ AtRest
    /\ k \in 1..Len(sinks[f])
    /\ sinks' = [sinks EXCEPT ![f] = RemoveAt(@, k)]
    /\ tamper' = Tampered("delete", f, k)
    /\ TamperFrame

TamperReorder(f, p) ==
    /\ AtRest
    /\ Len(sinks[f]) >= 2
    /\ \E i \in DOMAIN p : p[i] # i
    /\ sinks' = [sinks EXCEPT ![f] = [i \in 1..Len(@) |-> @[p[i]]]]
    /\ tamper' = Tampered("reorder", f, 0)
    /\ TamperFrame

TamperReplace(f, k, line) ==
    /\ AtRest
    /\ k \in 1..Len(sinks[f])
    /\ sinks' = [sinks EXCEPT ![f][k] = line]
    /\ tamper' = Tampered("replace", f, k)
    /\ TamperFrame

TamperDropKey(f, k, key) ==
    /\ AtRest
    /\ k \in 1..Len(sinks[f])
    /\ sinks' = [sinks EXCEPT ![f][k].f[key] = Missing]
    /\ tamper' = Tampered("dropkey", f, k)
    /\ TamperFrame

AuxKeys == {"name", "ip"}

AuxValues == {<<"x">>, Missing}

TamperAux(f, k, key, v) ==
    /\ AtRest
    /\ k \in 1..Len(sinks[f])
    /\ sinks[f][k].f[key] # v
    /\ sinks' = [sinks EXCEPT ![f][k].f[key] = v]
    /\ tamper' = Tampered("aux", f, k)
    /\ TamperFrame

SignedLevels ==
    {<<"DEBUG">>} \cup {<<l, "|", "a">> : l \in Levels}

InsertAt(s, k, line) ==
    [i \in 1..(Len(s) + 1) |-> IF i <= k THEN s[i] ELSE IF i = k + 1 THEN line ELSE s[i - 1]]

(* a line that is no JSON put after line k (k = 0: before the first)       *)
TamperInsert(f, k, line) ==
    /\ AtRest
    /\ Len(sinks[f]) >= 1
    /\ k \in 0..Len(sinks[f])
    /\ sinks' = [sinks EXCEPT ![f] = InsertAt(@, k, line)]
    /\ tamper' = Tampered("insert", f, k + 1)
    /\ TamperFrame

(* several signed fields of one record changed together                    *)
EditLevels(line) == {<<"DEBUG">>, line.f["level"] \o <<"|", "a">>}

TamperSigned(f, k, lvl, msg) ==
    /\ AtRest
    /\ k \in 1..Len(sinks[f])
    /\ lvl \in EditLevels(sinks[f][k])
    /\ msg \in {sinks[f][k].f["message"], <<"b">>}
    /\ sinks' = [sinks EXCEPT ![f][k].f["level"] = lvl, ![f][k].f["message"] = msg]
    /\ tamper' = Tampered("signed", f, k)
    /\ TamperFrame

MaxLines == MaxEmit * MaxSetups

Tamper ==
    \E f \in Files :
        \/ \E k \in 1..MaxLines, m \in EditMessages : TamperEdit(f, k, m)
        \/ \E k \in 1..MaxLines : TamperDelete(f, k)
        \/ \E p \in Permutations(1..Len(sinks[f])) : TamperReorder(f, p)
        \/ \E k \in 1..MaxLines, line \in JunkLines : TamperReplace(f, k, line)
        \/ \E k \in 1..MaxLines, key \in DropKeys : TamperDropKey(f, k, key)
        \/ \E k \in 1..MaxLines, key \in AuxKeys, v \in AuxValues :
               TamperAux(f, k, key, v)
        \/ \E k \in 0..MaxLines : TamperInsert(f, k, Garbage)
        \/ \E k \in 1..MaxLines, lvl \in SignedLevels, msg \in EditMessages \cup Messages :
               TamperSigned(f, k, lvl, msg)

(* verify_audit.py:16-18: an empty key ends the run before the file is read *)
NoKey == [result |-> "FALSE", verdict |-> "NONE", diags |-> <<>>, visited |-> 0]

(* the files exist once a FileHandler has opened them                      *)
Exists(f) == setups >= 1

Verify_named(f) ==
    LET own == IF f = "security.log" THEN <<"security">>
               ELSE IF f = "application.log" THEN <<"application">>
               ELSE IF f = "access.log" THEN <<"access">> ELSE <<"error">>
        r == verify_log_file(Exists(f), sinks[f])
    IN  IF \A i \in 1..Len(sinks[f]) : sinks[f][i].f["name"] = own
        THEN r
        ELSE [result |-> "FALSE", verdict |-> "ALARM", diags |-> r.diags,
              visited |-> r.visited]

Verify(f) ==
    IF environ = "empty" THEN NoKey ELSE verify_log_file(Exists(f), sinks[f])

VerifyFile(f) ==
    /\ proc.verifier = "up"
    /\ AllIdle
    /\ tamper.kind # "none" => f = tamper.file
    /\ cli = NoCli
    /\ LET r == Verify(f)
       IN  report' = [file |-> f, result |-> r.result, verdict |-> r.verdict,
                      diags |-> r.diags, visited |-> r.visited]
    /\ UNCHANGED <<last_hashes, setups, lock, sinks, pc, ev, todo, loc,
                   produced, emitted, tamper>>
    /\ UNCHANGED Host

(* a run of verify_log_file that is followed by further logging and by a  *)
(* second run (VerifyFile)                                                 *)
VerifyFirst(f) ==
    /\ proc.verifier = "up"
    /\ AllIdle
    /\ Running
    /\ seen = NoSeen
    /\ LET r == Verify(f)
       IN  seen' = [file |-> f, exists |-> Exists(f), lines |-> sinks[f],
                    outcome |-> <<r.result, r.verdict, r.diags, r.visited>>,
                    at |-> emitted]
    /\ UNCHANGED <<last_hashes, setups, lock, sinks, pc, ev, todo, loc, produced,
                   emitted, tamper, report, environ, proc, boot, cli>>

(* the content of a sink that has been verified is put in the place of     *)
(* another sink                                                            *)
Place(f, g) ==
    /\ AtRest
    /\ f # g
    /\ seen.file = f
    /\ seen.lines = sinks[f]
    /\ Len(sinks[f]) >= 1
    /\ sinks' = [sinks EXCEPT ![g] = sinks[f]]
    /\ tamper' = Tampered("place", g, 0)
    /\ TamperFrame

(* verify_audit.py run as a program: with a path it verifies that file;   *)
(* without, the files of files_to_check that exist, one after another.  An *)
(* exception raised by verify_log_file ends the program.                   *)
files_to_check_claimed == <<"application.log", "security.log", "error.log">>

files_to_check == <<"security.log", "application.log", "error.log">>

Ran(f) == [file |-> f, result |-> Verify(f).result, verdict |-> Verify(f).verdict]

RECURSIVE MainLoop(_, _)
MainLoop(files, runs) ==
    IF files = <<>> THEN [runs |-> runs, ended |-> "exit"]
    ELSE IF ~Exists(Head(files)) THEN MainLoop(Tail(files), runs)
    ELSE IF Ran(Head(files)).result = "CRASH"
         THEN [runs |-> Append(runs, Ran(Head(files))), ended |-> "raised"]
         ELSE MainLoop(Tail(files), Append(runs, Ran(Head(files))))

main(arg) ==
    IF arg = "" THEN MainLoop(files_to_check, <<>>)
    ELSE [runs |-> <<Ran(arg)>>,
          ended |-> IF Ran(arg).result = "CRASH" THEN "raised" ELSE "exit"]

Main(arg) ==
    /\ proc.verifier = "up"
    /\ AllIdle
    /\ report = NoReport
    /\ cli = NoCli
    /\ tamper.kind # "none" => arg \in {"", tamper.file}
    /\ cli' = [arg |-> arg, runs |-> main(arg).runs, ended |-> main(arg).ended]
    /\ UNCHANGED <<last_hashes, setups, lock, sinks, pc, ev, todo, loc, produced,
                   emitted, tamper, report, environ, proc, boot, seen>>

Emission ==
    \E t \in Threads :
        \/ \E name \in LoggerNames, level \in Levels, msg \in Messages :
               Log(t, name, level, msg)
        \/ \E ts \in Timestamps : ReadPrev(t, ts)
        \/ add_fields(t)
        \/ Emit(t)

Next ==
    \/ setup_logging
    \/ Emission
    \/ Tamper
    \/ \E f \in Files : VerifyFile(f)

NextThreads ==
    \/ setup_logging
    \/ Emission

NextRestart ==
    \/ setup_logging
    \/ Emission
    \/ Restart
    \/ \E f \in Files : VerifyFile(f)

Spec == Init /\ [][Next]_vars

SpecRestart == Init /\ [][NextRestart]_vars

NextCli ==
    \/ setup_logging
    \/ Emission
    \/ Tamper
    \/ \E arg \in {""} \cup Files : Main(arg)

SpecCli == Init /\ [][NextCli]_vars

NextReplay ==
    \/ setup_logging
    \/ Emission
    \/ \E f \in Files : VerifyFirst(f)
    \/ \E f \in Files : VerifyFile(f)

SpecReplay == Init /\ [][NextReplay]_vars

NextPlace ==
    \/ setup_logging
    \/ Emission
    \/ \E f \in Files : VerifyFirst(f)
    \/ \E f, g \in Files : Place(f, g)
    \/ \E f \in Files : VerifyFile(f)

SpecPlace == Init /\ [][NextPlace]_vars

NextEnv ==
    \/ ImportLogger
    \/ ImportVerifier
    \/ setup_logging
    \/ Emission
    \/ \E f \in Files : VerifyFile(f)

SpecEnv == InitEnv /\ [][NextEnv]_vars

SpecThreads == InitThreads /\ [][NextThreads]_vars

(* ======================= properties of the code ======================== *)
Prev(line) == Get(line, "prev_signature")

Sig(line) == Get(line, "signature")

Untampered == tamper.kind = "none"

WasOK == verify_log_file(TRUE, tamper.before).result = "TRUE"

Audited(kind) ==
    /\ tamper.kind = kind
    /\ WasOK
    /\ report.file = tamper.file

HasDiag(n, what) == \E i \in 1..Len(report.diags) : report.diags[i] = Diag(n, what)

ErrorLevels == {<<"ERROR">>, <<"CRITICAL">>}

KnownChannels == {"access", "application", "security", "error"}

Resolved(name) == IF name \in KnownChannels THEN name ELSE "application"

SameEvent(r, q) ==
    /\ r.f["name"] = q.f["name"]
    /\ r.f["level"] = q.f["level"]
    /\ r.f["message"] = q.f["message"]
    /\ r.f["timestamp"] = q.f["timestamp"]

InSink(r, f) == \E j \in 1..Len(sinks[f]) : sinks[f][j] = r

(* C1: when events are emitted one after another in one process, the       *)
(* records produced under a channel's chain are linked: the first carries  *)
(* the genesis value as prev_signature, every later one the signature of   *)
(* the record produced just before it.                                     *)
C1_ChainContinuity ==
    \A c \in Channels : \A i \in 1..Len(produced[c]) :
        Prev(produced[c][i]) =
            IF i = 1 THEN Genesis ELSE Sig(produced[c][i - 1])

C1_Witness ==
    /\ Len(produced["application"]) >= 3
    /\ \E i \in 1..Len(produced["application"]) :
           produced["application"][i].f["name"] = <<"werkzeug">>

(* C2 (as claimed): after any honest sequence of events of one process,    *)
(* starting from empty sinks, every channel sink verifies SUCCESS.         *)
C2_HonestRoundTrip ==
    (AllIdle /\ Untampered /\ setups >= 1) =>
        \A f \in Files : verify_log_file(TRUE, sinks[f]).result = "TRUE"

(* C3 (as claimed): once concurrent emissions have completed, the records  *)
(* produced under each channel's chain form one unbroken chain starting at *)
(* genesis, and no two of them share a prev_signature.                     *)
C3_ConcurrencySafety ==
    AllIdle =>
        \A c \in Channels :
            LET s == produced[c]
            IN  /\ \A i, j \in 1..Len(s) : i # j => Prev(s[i]) # Prev(s[j])
                /\ \A i \in 1..Len(s) :
                       \/ Prev(s[i]) = Genesis
                       \/ \E j \in 1..Len(s) : Sig(s[j]) = Prev(s[i])

(* C4: in a sink that verified SUCCESS, changing the message of record k   *)
(* and leaving its signature alone makes the verifier report a signature   *)
(* mismatch at line k, nothing at any earlier line, and return false.      *)
C4_EditDetected ==
    Audited("edit") =>
        /\ HasDiag(tamper.k, "signature")
        /\ \A i \in 1..Len(report.diags) : report.diags[i].line >= tamper.k
        /\ report.result = "FALSE"

C4_Witness ==
    /\ Audited("edit")
    /\ tamper.k >= 2
    /\ tamper.k < Len(tamper.before)
    /\ report.verdict = "ALARM"

C6_ReorderDetected ==
    Audited("reorder") =>
        /\ report.result = "FALSE"
        /\ \E n \in 1..Len(sinks[tamper.file]) : HasDiag(n, "chain")

C6_Witness ==
    /\ Audited("reorder")
    /\ Len(tamper.before) >= 3
    /\ sinks[tamper.file][1] = tamper.before[1]
    /\ report.verdict = "ALARM"

(* C7: a step of an emission on logger n changes no chain entry other than *)
(* the one n resolves to (n itself for the four known channels, otherwise  *)
(* application), and no other step changes any chain entry.                *)
C7_ChannelIsolation ==
    [][\A c \in Channels :
          last_hashes'[c] # last_hashes[c] =>
              \E t \in Threads :
                  /\ pc[t] = "sign"
                  /\ pc'[t] = "emit"
                  /\ Resolved(ev[t].name) = c]_vars

C7_Witness ==
    /\ last_hashes["security"] # Genesis
    /\ \A c \in Channels \ {"security"} : last_hashes[c] = Genesis
    /\ Len(sinks["security.log"]) >= 1

(* C8 (as claimed): for an existing sink the verifier returns true exactly *)
(* when no line is unparsable, every record's prev_signature is the        *)
(* expected one and every stored signature equals the recomputed HMAC;     *)
(* in every other case it returns false.                                   *)
CleanSink(lines) ==
    \A i \in 1..Len(lines) :
        /\ lines[i].kind = "obj"
        /\ Has(lines[i], "prev_signature")
        /\ Has(lines[i], "timestamp")
        /\ Has(lines[i], "level")
        /\ Prev(lines[i]) = IF i = 1 THEN Genesis ELSE Sig(lines[i - 1])
        /\ Sig(lines[i]) = hmac_new(LOG_SECRET_KEY,
                                    Payload(lines[i].f["prev_signature"],
                                            lines[i].f["timestamp"],
                                            lines[i].f["level"],
                                            GetOr(lines[i], "message", <<>>)))

C8_VerdictIff ==
    (report.file # "" /\ setups >= 1) =>
        /\ report.result = "TRUE" <=> CleanSink(sinks[report.file])
        /\ report.result = "FALSE" <=> ~CleanSink(sinks[report.file])

(* C9 (as claimed): whatever the sink holds, the verifier visits every     *)
(* line and ends with a SUCCESS or ALARM verdict.                          *)
C9_ScansToCompletion ==
    (report.file # "" /\ setups >= 1) =>
        /\ report.visited = Len(sinks[report.file])
        /\ report.verdict \in {"SUCCESS", "ALARM"}

ChannelFile == [access |-> "access.log", application |-> "application.log",
                security |-> "security.log", error |-> "error.log"]

Lines(seq) == {seq[i] : i \in 1..Len(seq)}

(* C11 (as claimed): at rest, the sink of every channel holds exactly the  *)
(* records enriched under that channel's own chain, and no record is in    *)
(* two of the sinks access.log, application.log and security.log.          *)
C11_SinkChainCorrespondence ==
    (AllIdle /\ Untampered) =>
        /\ \A c \in Channels : Lines(sinks[ChannelFile[c]]) = Lines(produced[c])
        /\ \A f, g \in Files \ {"error.log"} :
               f # g => Lines(sinks[f]) \cap Lines(sinks[g]) = {}

TotalLines ==
    Len(sinks["access.log"]) + Len(sinks["application.log"])
        + Len(sinks["security.log"]) + Len(sinks["error.log"])

TotalProduced ==
    Len(produced["access"]) + Len(produced["application"])
        + Len(produced["security"]) + Len(produced["error"])

(* C12 (as claimed): a logging call that is accepted is handled once: one  *)
(* handler formats and appends its record, so that at rest the sinks hold  *)
(* no more records, and the chains have advanced no more often, than there *)
(* were logging calls; also after the setup_logging call of app.py.        *)
C12_OneRecordPerCall ==
    /\ \A t \in Threads : pc[t] \in {"format", "sign", "emit"} => Len(todo[t]) = 1
    /\ (AllIdle /\ Untampered) =>
           /\ TotalLines <= emitted
           /\ TotalProduced <= emitted

Last(seq) == seq[Len(seq)]

(* C13: an emission on a logger whose name is not exactly one of access,   *)
(* application, security, error reads its prev_signature from the          *)
(* application chain, stores its signature as the new head of the          *)
(* application chain and of no other chain, and the record it produces     *)
(* and appends carries the caller's logger name.                           *)
C13_UnknownChannelFolding ==
    [][\A t \in Threads :
          ev[t].name \notin KnownChannels =>
              /\ (pc[t] = "format" /\ pc'[t] = "sign") =>
                     loc'[t].prev = last_hashes["application"]
              /\ (pc[t] = "sign" /\ pc'[t] = "emit") =>
                     /\ Len(produced'["application"]) = Len(produced["application"]) + 1
                     /\ Prev(Last(produced'["application"])) = loc[t].prev
                     /\ Sig(Last(produced'["application"])) = last_hashes'["application"]
                     /\ Last(produced'["application"]).f["name"] = <<ev[t].name>>
                     /\ \A c \in Channels \ {"application"} :
                            last_hashes'[c] = last_hashes[c]
              /\ (pc[t] = "emit" /\ pc'[t] # "emit") =>
                     \E f \in Files :
                         /\ Len(sinks'[f]) = Len(sinks[f]) + 1
                         /\ Last(sinks'[f]).f["name"] = <<ev[t].name>>
                         /\ Prev(Last(sinks'[f])) = loc[t].prev
                         /\ Sig(Last(sinks'[f])) = loc[t].sig]_vars

C13_Witness ==
    /\ AllIdle
    /\ Len(produced["application"]) >= 2
    /\ Last(produced["application"]).f["name"] = <<"Security">>
    /\ Prev(Last(produced["application"])) # Genesis
    /\ last_hashes["application"] = Sig(Last(produced["application"]))
    /\ last_hashes["security"] = Genesis
    /\ InSink(Last(produced["application"]), "error.log")

IsPrefix(a, b) == Len(a) <= Len(b) /\ \A i \in 1..Len(a) : a[i] = b[i]

(* C14: every step of the logging subsystem (a step of an emission, a      *)
(* setup_logging call, a verifier run), that is every step other than an   *)
(* edit of a file by someone else, leaves in each sink what it held before *)
(* as a prefix of what it holds after.                                     *)
C14_AppendOnly ==
    [][tamper' = tamper => \A f \in Files : IsPrefix(sinks[f], sinks'[f])]_vars

C14_Witness ==
    /\ Untampered
    /\ setups = 2
    /\ Len(sinks["security.log"]) = 3
    /\ report.file = "security.log"

(* C15: in a sink that verified SUCCESS, after the message of exactly one  *)
(* record k is changed the verifier reports exactly one anomaly in the     *)
(* whole sink, a signature mismatch at line k (so no chain discontinuity   *)
(* at line k+1 or later), and its verdict is failure.                      *)
C15_SingleEditBlastRadius ==
    Audited("edit") =>
        /\ report.diags = <<Diag(tamper.k, "signature")>>
        /\ report.visited = Len(sinks[tamper.file])
        /\ report.verdict = "ALARM"
        /\ report.result = "FALSE"

C15_Witness ==
    /\ Audited("edit")
    /\ tamper.k = 1
    /\ Len(tamper.before) >= 3
    /\ report.diags = <<Diag(1, "signature")>>

Outcome(r) == <<r.result, r.verdict, r.diags, r.visited>>

C17_SignedFieldsTamperEvident ==
    (Audited("edit") \/ Audited("signed")) => report.result = "FALSE"

C19_MissingSecretFatal ==
    environ = "absent" =>
        /\ proc.logger # "up"
        /\ proc.verifier # "up"
        /\ setups = 0
        /\ \A c \in Channels : last_hashes[c] = Genesis /\ produced[c] = <<>>
        /\ \A f \in Files : sinks[f] = <<>>
        /\ \A t \in Threads : pc[t] \in {"idle", "off"}
        /\ report = NoReport
        /\ cli = NoCli

C19_Witness ==
    /\ environ = "absent"
    /\ proc = [logger |-> "failed", verifier |-> "failed"]

Printed(run) == run.verdict \in {"SUCCESS", "ALARM"}

Signing(c) == {t \in Threads : pc[t] = "sign" /\ Resolved(ev[t].name) = c}

(* C21 (as claimed): for every channel, at most one thread at a time is    *)
(* between its read of the channel's entry of last_hashes and its store of *)
(* the new signature to it.                                                *)
C21_SerializedReadModifyWrite ==
    \A c \in Channels : Cardinality(Signing(c)) <= 1

(* C22 (as claimed): when concurrent emissions have completed, every line  *)
(* of a sink is a record under which a chain was advanced, and the lines   *)
(* of each sink are in chain order: each line after the first carries the  *)
(* signature of the line before it as prev_signature.                      *)
C22_SinkOrderIsChainOrder ==
    AllIdle =>
        \A f \in Files :
            /\ \A i \in 1..Len(sinks[f]) :
                   \E c \in Channels : sinks[f][i] \in Lines(produced[c])
            /\ \A i \in 2..Len(sinks[f]) :
                   Prev(sinks[f][i]) = Sig(sinks[f][i - 1])

(* C23: in every reachable state, in particular when no emission is in     *)
(* progress, the entry of last_hashes of a channel is the signature of the *)
(* record most recently enriched under that channel's chain, or the        *)
(* genesis value if there is none: each record enriched stores its         *)
(* signature once and nothing else writes last_hashes.                     *)
C23_ChainHead ==
    \A c \in Channels :
        last_hashes[c] =
            IF produced[c] = <<>> THEN Genesis ELSE Sig(Last(produced[c]))

C23_Witness ==
    /\ AllIdle
    /\ Len(produced["security"]) >= 3
    /\ last_hashes["security"] = Sig(Last(produced["security"]))
    /\ \E i \in 1..2 : Prev(produced["security"][i]) = Prev(produced["security"][i + 1])
    /\ last_hashes["error"] = Genesis

Junked(kind) ==
    /\ tamper.kind = kind
    /\ report.file = tamper.file
    /\ sinks[tamper.file][tamper.k] = Garbage

(* what the verifier expects as prev_signature at line j of a sink whose   *)
(* only line that is no JSON is line k                                     *)
ExpectedAt(lines, j, k) ==
    LET p == IF j - 1 = k THEN j - 2 ELSE j - 1
    IN  IF p = 0 THEN Genesis ELSE Sig(lines[p])

(* C24: a line that is no JSON (a blank line included), put in place of a  *)
(* record or between records of any sink, is reported as a format error at *)
(* its line and makes the verdict failure; the scan goes on to the last    *)
(* line, and each other line is reported as a chain discontinuity exactly  *)
(* if its prev_signature is not the expected one and as a signature        *)
(* mismatch exactly if its signature is not the HMAC of its fields.        *)
C24_MalformedLine ==
    (Junked("replace") \/ Junked("insert")) =>
        LET lines == sinks[tamper.file]
        IN  /\ HasDiag(tamper.k, "json")
            /\ report.verdict = "ALARM"
            /\ report.result = "FALSE"
            /\ report.visited = Len(lines)
            /\ \A j \in 1..Len(lines) :
                   j # tamper.k =>
                       /\ HasDiag(j, "chain") <=>
                              Prev(lines[j]) # ExpectedAt(lines, j, tamper.k)
                       /\ HasDiag(j, "signature") <=>
                              Sig(lines[j]) # hmac_new(LOG_SECRET_KEY,
                                                       Payload(lines[j].f["prev_signature"],
                                                               lines[j].f["timestamp"],
                                                               lines[j].f["level"],
                                                               lines[j].f["message"]))
                       /\ ~HasDiag(j, "json")

C24_Witness ==
    /\ Junked("insert")
    /\ WasOK
    /\ tamper.k = 2
    /\ Len(sinks[tamper.file]) >= 4
    /\ report.diags = <<Diag(2, "json")>>

Diagnoses(what) == {i \in 1..Len(report.diags) : report.diags[i].what = what}

(* C25: on a sink that verified SUCCESS, deleting one record other than    *)
(* the last yields exactly one chain-discontinuity diagnosis and no        *)
(* signature-mismatch diagnosis; editing only the message of one record    *)
(* yields exactly one signature-mismatch diagnosis and no chain            *)
(* discontinuity: the two kinds of tampering never get the same diagnosis. *)
C25_DistinctDiagnostics ==
    /\ (Audited("delete") /\ tamper.k < Len(tamper.before)) =>
           /\ Cardinality(Diagnoses("chain")) = 1
           /\ Cardinality(Diagnoses("signature")) = 0
           /\ Len(report.diags) = 1
    /\ Audited("edit") =>
           /\ Cardinality(Diagnoses("signature")) = 1
           /\ Cardinality(Diagnoses("chain")) = 0
           /\ Len(report.diags) = 1

C25_Witness ==
    /\ Audited("delete")
    /\ tamper.k = 1
    /\ Len(tamper.before) >= 3
    /\ report.diags = <<[line |-> 1, what |-> "chain"]>>

(* C26: a run of verify_log_file leaves every sink and last_hashes as they *)
(* were, and a run over a sink that holds what it held at an earlier run   *)
(* returns the same result, verdict and per-line diagnoses as that run,    *)
(* whatever was logged between the two.                                    *)
C26_VerifierStateless ==
    [][(report' # report \/ seen' # seen) =>
          /\ sinks' = sinks
          /\ last_hashes' = last_hashes
          /\ (/\ report' # report
              /\ seen.file = report'.file
              /\ seen.exists = Exists(seen.file)
              /\ seen.lines = sinks[seen.file]) =>
                 Outcome(report') = seen.outcome]_vars

C26_Witness ==
    /\ seen.file = "security.log"
    /\ report.file = "security.log"
    /\ Len(seen.lines) >= 1
    /\ seen.lines = sinks["security.log"]
    /\ seen.at < emitted
    /\ last_hashes["application"] # Genesis
    /\ Len(sinks["error.log"]) >= 1
    /\ Outcome(report) = seen.outcome

(* the events no handler accepts: DEBUG on any logger, anything below      *)
(* ERROR on the logger error or on a logger name that has no handler of    *)
(* its own                                                                 *)
Filtered(name, level) ==
    \/ level = "DEBUG"
    \/ name \notin {"access", "application", "security"}
           /\ level \notin {"ERROR", "CRITICAL"}

(* C27: a logging call whose event no handler accepts is not formatted and *)
(* changes no sink and no entry of last_hashes; an entry of last_hashes    *)
(* changes only in the step that formats the record of an accepted event.  *)
C27_FilteredNoTrace ==
    [][/\ \A t \in Threads :
              (pc[t] = "idle" /\ pc'[t] = "format") =>
                  ~Filtered(ev'[t].name, ev'[t].level)
       /\ (emitted' # emitted /\ pc' = pc) =>
              /\ sinks' = sinks
              /\ last_hashes' = last_hashes
              /\ produced' = produced
       /\ (last_hashes' # last_hashes \/ sinks' # sinks) =>
              \E t \in Threads :
                  /\ pc[t] \in {"sign", "emit"}
                  /\ pc'[t] # pc[t]
                  /\ ~Filtered(ev[t].name, ev[t].level)]_vars

C27_Witness ==
    /\ AllIdle
    /\ setups >= 1
    /\ emitted = MaxEmit
    /\ TotalLines = 0
    /\ \A c \in Channels : last_hashes[c] = Genesis

(* C28: in a sink that verified SUCCESS, a line that is no JSON inserted   *)
(* between two adjacent records yields exactly one anomaly, the format     *)
(* error at the inserted line, and no chain discontinuity at the record    *)
(* after it; a record k replaced by such a line yields the format error at *)
(* line k and, when a record follows, a chain discontinuity at line k+1    *)
(* and nothing else.                                                       *)
C28_UnparsableKeepsExpected ==
    /\ (Junked("insert") /\ WasOK /\ tamper.k \in 2..Len(tamper.before)) =>
           report.diags = <<[line |-> tamper.k, what |-> "json"]>>
    /\ (Junked("replace") /\ WasOK) =>
           report.diags =
               IF tamper.k < Len(tamper.before)
               THEN <<[line |-> tamper.k, what |-> "json"],
                      [line |-> tamper.k + 1, what |-> "chain"]>>
               ELSE <<[line |-> tamper.k, what |-> "json"]>>

C28_Witness ==
    /\ Junked("replace")
    /\ WasOK
    /\ tamper.k = 2
    /\ Len(tamper.before) >= 4
    /\ report.diags = <<[line |-> 2, what |-> "json"], [line |-> 3, what |-> "chain"]>>

Placed ==
    /\ tamper.kind = "place"
    /\ report.file = tamper.file
    /\ seen.file # report.file
    /\ seen.lines = sinks[report.file]

(* C30: the records of a sink, put in the place of another channel's sink, *)
(* get from the verifier the result, verdict and diagnoses they got under  *)
(* their own sink's name; records that verified SUCCESS as one sink verify *)
(* SUCCESS as any other.                                                   *)
C30_ChannelAgnostic ==
    Placed =>
        /\ Outcome(report) = seen.outcome
        /\ seen.outcome[2] = "SUCCESS" => report.verdict = "SUCCESS"

C30_Witness ==
    /\ Placed
    /\ seen.file = "security.log"
    /\ report.file = "application.log"
    /\ Len(sinks["application.log"]) >= 2
    /\ Len(tamper.before) >= 1
    /\ report.verdict = "SUCCESS"

====
